---------------------------- MODULE Spec2Model ----------------------------
(***************************************************************************)
(* pubchem_3d_downloader.py: main(csv_file) reads a table of compound      *)
(* identifiers and, row by row, requests the 3D SDF, falls back to the 2D  *)
(* SDF, saves the text under <csv_dir>/downloaded_sdf/{3D,2D}/<cid>.sdf or *)
(* appends a failure record to ./error.log and ./failed_cids.txt.          *)
(*                                                                         *)
(* The state is the filesystem the program touches (the two output         *)
(* directories, the structure files, the two logs), main's locals and its  *)
(* position, the HTTP response in flight, and a per-row history of what    *)
(* happened (got3d, got2d, save, logged, n3d, n2d) that the program does   *)
(* not keep but the properties speak about.                                *)
(*                                                                         *)
(* main is taken as the script runs it (args.csv_file is csv_file).  What  *)
(* it prints is not part of the state.  A file's content is its text, as   *)
(* Python writes and reads it back in text mode.  Every call that can      *)
(* raise (read_csv, makedirs, row['cid'], requests.get, open and write of  *)
(* a structure file, open and write of a log) has its failure as one of    *)
(* its outcomes; pc = "crashed" is main left by an exception, and error    *)
(* names the call that raised it.                                          *)
(***************************************************************************)
EXTENDS Integers, Sequences, FiniteSets, TLC

\* The longest input table explored.
MaxRows == 2

\* Compound identifiers appearing in the cid column.
CIDs == {1, 2}

\* Response bodies: the empty text, and a two-character text.
Bodies == {<<>>, <<1, 2>>}

\* Content a structure file may hold before the run starts.
OldText == <<9>>

\* HTTP status codes a response may carry (requests follows 301/302/303/307/308
\* itself; a 304 comes back as it is).
Statuses == {200, 304, 404, 503}

Dims == {"3D", "2D"}

Msg_download == "Failed to download 3D and 2D SDF"

Msg_save == "Failed to save SDF"

---------------------------------------------------------------------------
\* Optional values: Python's None against a str, and an absent file against one
\* with content.
None == [ok |-> FALSE, text |-> <<>>]

Some(t) == [ok |-> TRUE, text |-> t]

NoFile == None

File(t) == Some(t)

NoSave == [kind |-> "none", left |-> <<>>, dim |-> ""]

Prefixes(t) == {SubSeq(t, 1, k) : k \in 0 .. (Len(t) - 1)}

IsPrefix(s, t) == Len(s) <= Len(t) /\ SubSeq(t, 1, Len(s)) = s

Tables == UNION {[1 .. n -> CIDs] : n \in 0 .. MaxRows}

\* What requests.get(url) can do: raise a RequestException (connection error,
\* timeout, too many redirects), raise something else, or return a response.
Responses ==
    {[kind |-> "request_exception", status |-> 0, text |-> <<>>],
     [kind |-> "other_exception", status |-> 0, text |-> <<>>]}
    \cup {[kind |-> "response", status |-> s, text |-> b] : s \in Statuses, b \in Bodies}

NoResponse == [kind |-> "none", status |-> 0, text |-> <<>>]

\* The input files explored: a missing file, an unparsable one, a table with a
\* cid column, and a table without one (the documented compound_name-only file).
Inputs ==
    {[exists |-> FALSE, parses |-> FALSE, hasCid |-> FALSE, rows |-> <<>>],
     [exists |-> TRUE, parses |-> FALSE, hasCid |-> FALSE, rows |-> <<>>]}
    \cup {[exists |-> TRUE, parses |-> TRUE, hasCid |-> h, rows |-> t] :
             h \in BOOLEAN, t \in Tables}

---------------------------------------------------------------------------
VARIABLES
    csv,          \* the input file named on the command line
    pc,           \* main's position
    df,           \* the loaded table (the cid column)
    i,            \* index of the row being processed
    cid,          \* row['cid']
    response,     \* the result of requests.get in flight inside download_sdf*
    sdf3d,        \* main's local
    sdf2d,        \* main's local
    message,      \* log_error's message argument
    dirs,         \* which of downloaded_sdf/3D and downloaded_sdf/2D exist
    files,        \* files[d][c]: content of downloaded_sdf/<d>/<c>.sdf
    error_log,    \* lines of ./error.log
    failed_cids,  \* lines of ./failed_cids.txt
    got3d,        \* history: per row, what the 3D fetch gave main
    got2d,        \* history: per row, what the 2D fetch gave main
    save,         \* history: per row, how the save went
    logged,       \* history: per row, completed log_error calls
    n3d,          \* history: per row, 3D requests issued
    n2d,          \* history: per row, 2D requests issued
    start,        \* the filesystem as the run found it
    run,          \* 1, or 2 when main is run again on the same input
    first,        \* what the first run left, once a second run has started
    error         \* where the exception that ended main was raised ("": none)

vars == <<csv, pc, df, i, cid, response, sdf3d, sdf2d, message, dirs, files,
          error_log, failed_cids, got3d, got2d, save, logged, n3d, n2d,
          start, run, first, error>>

locals == <<cid, response, sdf3d, sdf2d, message>>

disk == <<dirs, files, error_log, failed_cids>>

history == <<got3d, got2d, save, logged, n3d, n2d>>

frame == <<csv, start, run, first>>

same == <<csv, start, run, first, error>>

Rows == 1 .. Len(csv.rows)

NoHistory ==
    [got3d |-> [r \in Rows |-> None], got2d |-> [r \in Rows |-> None],
     save |-> [r \in Rows |-> NoSave], logged |-> [r \in Rows |-> 0],
     files |-> [d \in Dims |-> [c \in CIDs |-> NoFile]],
     error_log |-> <<>>, failed_cids |-> <<>>]

Init ==
    /\ csv \in Inputs
    /\ pc = "read_csv"
    /\ df = <<>>
    /\ i = 1
    /\ cid = 0
    /\ response = NoResponse
    /\ sdf3d = None
    /\ sdf2d = None
    /\ message = ""
    /\ \/ /\ dirs = {}
          /\ files = [d \in Dims |-> [c \in CIDs |-> NoFile]]
       \/ /\ dirs = Dims
          /\ files \in [Dims -> [CIDs -> {NoFile, File(OldText)}]]
    /\ error_log = <<>>
    /\ failed_cids = <<>>
    /\ got3d = [r \in Rows |-> None]
    /\ got2d = [r \in Rows |-> None]
    /\ save = [r \in Rows |-> NoSave]
    /\ logged = [r \in Rows |-> 0]
    /\ n3d = [r \in Rows |-> 0]
    /\ n2d = [r \in Rows |-> 0]
    /\ start = [dirs |-> dirs, files |-> files, error_log |-> error_log,
                 failed_cids |-> failed_cids]
    /\ run = 1
    /\ first = NoHistory
    /\ error = ""

---------------------------------------------------------------------------
\* response.raise_for_status(): raises HTTPError for a 4xx or 5xx status only.
raise_for_status(status) == status >= 400 /\ status < 600

Return(v) == [raised |-> FALSE, value |-> v]

Raise == [raised |-> TRUE, value |-> None]

\* Mutant: an empty body is taken for a failed download.
download_sdf3d_empty_is_None(r) ==
    IF r.kind = "request_exception" THEN Return(None)
    ELSE IF r.kind = "other_exception" THEN Raise
    ELSE IF raise_for_status(r.status) \/ r.text = <<>> THEN Return(None)
    ELSE Return(Some(r.text))

\* download_sdf3d(cid), given what requests.get did: the text of the response,
\* None when a RequestException was raised (by get or by raise_for_status); any
\* other exception leaves the function.
download_sdf3d(r) ==
    IF r.kind = "request_exception" THEN Return(None)
    ELSE IF r.kind = "other_exception" THEN Raise
    ELSE IF raise_for_status(r.status) THEN Return(None)
    ELSE Return(Some(r.text))

download_sdf2d(r) ==
    IF r.kind = "request_exception" THEN Return(None)
    ELSE IF r.kind = "other_exception" THEN Raise
    ELSE IF raise_for_status(r.status) THEN Return(None)
    ELSE Return(Some(r.text))

\* main's try/except Exception around each download: an exception is None.
Fetch3D(r) == IF download_sdf3d(r).raised THEN None ELSE download_sdf3d(r).value

Fetch2D(r) == IF download_sdf2d(r).raised THEN None ELSE download_sdf2d(r).value

\* Mutants: the two directory names swapped.
dir3D_is_2D == "2D"

dir2D_is_3D == "3D"

dir3D == "3D"

dir2D == "2D"

\* Mutant: the file is opened with 'a', so the text follows what was there.
Written_append(fs, d, c, text) ==
    [fs EXCEPT ![d][c] = File((IF @.ok THEN @.text ELSE <<>>) \o text)]

\* open(path, 'w') followed by f.write(text) and close: the file holds text.
Written(fs, d, c, text) == [fs EXCEPT ![d][c] = File(text)]

\* How saving text can go: it works; open raises IOError (the file is left as it
\* was); write or close raises IOError after open truncated the file (a proper
\* prefix of the text is left); write raises an exception that is no IOError,
\* such as UnicodeEncodeError (the truncated file is left empty).
SaveOutcomes(text) ==
    {[kind |-> "ok", left |-> text], [kind |-> "open_fails", left |-> <<>>]}
    \cup {[kind |-> "write_fails", left |-> p] : p \in Prefixes(text)}
    \cup (IF text = <<>> THEN {} ELSE {[kind |-> "encode_error", left |-> <<>>]})

\* Mutant: the record always carries the save message.
ErrorLine_save(c, m) == <<c, Msg_save>>

\* f"{cid}: {message}\n" and f"{cid}\n"
ErrorLine(c, m) == <<c, m>>

FailedLine(c) == <<c>>

\* Mutant: the log is opened with 'w', so the line replaces what was there.
Appended_truncating(log, line) == <<line>>

\* open(path, 'a') followed by f.write(line)
Appended(log, line) == Append(log, line)

\* The loop's continue (and the end of its body).
Continue ==
    /\ i' = i + 1
    /\ pc' = "loop"

---------------------------------------------------------------------------
\* Mutant: the handler of FileNotFoundError does not return.
ReadCsv_no_return ==
    /\ pc = "read_csv"
    /\ IF ~csv.exists THEN pc' = "makedirs" /\ df' = df /\ error' = error
       ELSE IF ~csv.parses THEN pc' = "crashed" /\ df' = df /\ error' = "read_csv"
       ELSE pc' = "makedirs" /\ df' = csv.rows /\ error' = error
    /\ UNCHANGED <<i, locals, disk, history, frame>>

\* Lines 52-56: pd.read_csv; a missing file is reported and main returns, any
\* other failure leaves main.
ReadCsv ==
    /\ pc = "read_csv"
    /\ IF ~csv.exists THEN pc' = "done" /\ df' = df /\ error' = error
       ELSE IF ~csv.parses THEN pc' = "crashed" /\ df' = df /\ error' = "read_csv"
       ELSE pc' = "makedirs" /\ df' = csv.rows /\ error' = error
    /\ UNCHANGED <<i, locals, disk, history, frame>>

\* Lines 67-72: both os.makedirs(..., exist_ok=True); either may raise.
Makedirs ==
    /\ pc = "makedirs"
    /\ \E o \in {"ok", "fail_3D", "fail_2D"} :
          CASE o = "ok" -> dirs' = Dims /\ pc' = "loop" /\ error' = error
            [] o = "fail_3D" ->
                  /\ dir3D \notin dirs
                  /\ dirs' = dirs
                  /\ pc' = "crashed" /\ error' = "makedirs"
            [] o = "fail_2D" ->
                  /\ dir2D \notin dirs
                  /\ dirs' = dirs \cup {dir3D}
                  /\ pc' = "crashed" /\ error' = "makedirs"
    /\ UNCHANGED <<df, i, locals, files, error_log, failed_cids, history, frame>>

\* Lines 74-75: the next row of df.iterrows(), and cid = row['cid'] (a KeyError
\* when the table has no cid column).
NextRow ==
    /\ pc = "loop"
    /\ IF i > Len(df) THEN pc' = "done" /\ cid' = cid /\ error' = error
       ELSE IF ~csv.hasCid THEN pc' = "crashed" /\ cid' = cid /\ error' = "row_cid"
       ELSE pc' = "get3d" /\ cid' = df[i] /\ error' = error
    /\ UNCHANGED <<df, i, response, sdf3d, sdf2d, message, disk, history, frame>>

\* Line 22: requests.get for the 3D record. A second run on the same input is
\* given responses that main sees as it saw those of the first.
Get3D ==
    /\ pc = "get3d"
    /\ \E r \in Responses :
          /\ run = 2 => Fetch3D(r) = first.got3d[i]
          /\ response' = r
    /\ n3d' = [n3d EXCEPT ![i] = @ + 1]
    /\ pc' = "ret3d"
    /\ UNCHANGED <<df, i, cid, sdf3d, sdf2d, message, disk, got3d, got2d, save,
                   logged, n2d, same>>

\* Lines 23-27 and 77-82.
Return3D ==
    /\ pc = "ret3d"
    /\ sdf3d' = Fetch3D(response)
    /\ got3d' = [got3d EXCEPT ![i] = Fetch3D(response)]
    /\ response' = NoResponse
    /\ pc' = IF Fetch3D(response) = None THEN "get2d" ELSE "write3d"
    /\ UNCHANGED <<df, i, cid, sdf2d, message, disk, got2d, save, logged, n3d,
                   n2d, same>>

\* Line 33: requests.get for the 2D record.
Get2D ==
    /\ pc = "get2d"
    /\ \E r \in Responses :
          /\ run = 2 => Fetch2D(r) = first.got2d[i]
          /\ response' = r
    /\ n2d' = [n2d EXCEPT ![i] = @ + 1]
    /\ pc' = "ret2d"
    /\ UNCHANGED <<df, i, cid, sdf3d, sdf2d, message, disk, got3d, got2d, save,
                   logged, n3d, same>>

\* Lines 34-38 and 83-90.
Return2D ==
    /\ pc = "ret2d"
    /\ sdf2d' = Fetch2D(response)
    /\ got2d' = [got2d EXCEPT ![i] = Fetch2D(response)]
    /\ response' = NoResponse
    /\ IF Fetch2D(response) = None
       THEN message' = Msg_download /\ pc' = "log_error"
       ELSE message' = message /\ pc' = "write2d"
    /\ UNCHANGED <<df, i, cid, sdf3d, disk, got3d, save, logged, n3d, n2d, same>>

\* The try/except IOError around a save (lines 92-99 and 101-107).
Save(d, text) ==
    \E o \in SaveOutcomes(text) :
       /\ save' = [save EXCEPT ![i] = [kind |-> o.kind, left |-> o.left, dim |-> d]]
       /\ CASE o.kind = "ok" ->
                 /\ files' = Written(files, d, cid, text)
                 /\ message' = message
                 /\ error' = error
                 /\ Continue
            [] o.kind = "open_fails" ->
                 /\ files' = files
                 /\ message' = Msg_save
                 /\ error' = error
                 /\ pc' = "log_error" /\ i' = i
            [] o.kind = "write_fails" ->
                 /\ files' = Written(files, d, cid, o.left)
                 /\ message' = Msg_save
                 /\ error' = error
                 /\ pc' = "log_error" /\ i' = i
            [] o.kind = "encode_error" ->
                 /\ files' = Written(files, d, cid, <<>>)
                 /\ message' = message
                 /\ error' = "save"
                 /\ pc' = "crashed" /\ i' = i

\* Lines 92-99.
Write2D ==
    /\ pc = "write2d"
    /\ Save(dir2D, sdf2d.text)
    /\ UNCHANGED <<df, cid, response, sdf3d, sdf2d, dirs, error_log, failed_cids,
                   got3d, got2d, logged, n3d, n2d, frame>>

\* Lines 101-107.
Write3D ==
    /\ pc = "write3d"
    /\ Save(dir3D, sdf3d.text)
    /\ UNCHANGED <<df, cid, response, sdf3d, sdf2d, dirs, error_log, failed_cids,
                   got3d, got2d, logged, n3d, n2d, frame>>

\* log_error, lines 41-42: the append to ./error.log; an IOError leaves
\* log_error and main (no handler is around either call).
LogErrorLog ==
    /\ pc = "log_error"
    /\ \E ok \in BOOLEAN :
          IF ok
          THEN /\ error_log' = Appended(error_log, ErrorLine(cid, message))
               /\ pc' = "log_failed" /\ error' = error
          ELSE /\ error_log' = error_log
               /\ pc' = "crashed" /\ error' = "error_log"
    /\ UNCHANGED <<df, i, locals, dirs, files, failed_cids, history, frame>>

\* log_error, lines 44-45: the append to ./failed_cids.txt, then the caller's
\* continue.
LogFailedCids ==
    /\ pc = "log_failed"
    /\ \E ok \in BOOLEAN :
          IF ok
          THEN /\ failed_cids' = Appended(failed_cids, FailedLine(cid))
               /\ logged' = [logged EXCEPT ![i] = @ + 1]
               /\ error' = error
               /\ Continue
          ELSE /\ failed_cids' = failed_cids
               /\ logged' = logged
               /\ pc' = "crashed" /\ error' = "failed_cids" /\ i' = i
    /\ UNCHANGED <<df, locals, dirs, files, error_log, got3d, got2d, save, n3d,
                   n2d, frame>>

\* main is run again on the same input once the first run has returned.
Rerun ==
    /\ pc = "done"
    /\ run = 1
    /\ run' = 2
    /\ first' = [got3d |-> got3d, got2d |-> got2d, save |-> save, logged |-> logged,
                 files |-> files, error_log |-> error_log,
                 failed_cids |-> failed_cids]
    /\ pc' = "read_csv"
    /\ df' = <<>>
    /\ i' = 1
    /\ cid' = 0
    /\ sdf3d' = None
    /\ sdf2d' = None
    /\ message' = ""
    /\ got3d' = [r \in Rows |-> None]
    /\ got2d' = [r \in Rows |-> None]
    /\ save' = [r \in Rows |-> NoSave]
    /\ logged' = [r \in Rows |-> 0]
    /\ n3d' = [r \in Rows |-> 0]
    /\ n2d' = [r \in Rows |-> 0]
    /\ UNCHANGED <<csv, response, disk, start, error>>

Next ==
    \/ ReadCsv
    \/ Makedirs
    \/ NextRow
    \/ Get3D
    \/ Return3D
    \/ Get2D
    \/ Return2D
    \/ Write2D
    \/ Write3D
    \/ LogErrorLog
    \/ LogFailedCids

Spec == Init /\ [][Next]_vars

\* Two runs of main on the same input, the first with no output tree yet.
InitRerun ==
    /\ Init
    /\ dirs = {}

NextRerun == Next \/ Rerun

SpecRerun == InitRerun /\ [][NextRerun]_vars

---------------------------------------------------------------------------
\* Vocabulary of the properties.

Range(seq) == {seq[k] : k \in DOMAIN seq}

RowCid(r) == csv.rows[r]

\* main has returned normally: every row of the table was processed.
AllProcessed == pc = "done"

Fetched3D(r) == n3d[r] = 1 /\ got3d[r].ok

FellBack(r) == n3d[r] = 1 /\ ~got3d[r].ok /\ n2d[r] = 1 /\ got2d[r].ok

BothAbsent(r) == n3d[r] = 1 /\ ~got3d[r].ok /\ n2d[r] = 1 /\ ~got2d[r].ok

Saved(r) == save[r].kind = "ok"

SaveFailed(r) == save[r].kind \in {"open_fails", "write_fails"}

\* Row q's save opened (and so rewrote) the file of directory d.
Rewrote(q, d) == save[q].dim = d /\ save[q].kind \in {"ok", "write_fails"}

\* No row after r rewrote r's file in directory d.
LastIn(r, d) == \A q \in Rows : q > r /\ RowCid(q) = RowCid(r) => ~Rewrote(q, d)

\* No row of r's identifier got a payload of dimension d.
NoPayload(r, d) ==
    \A q \in Rows :
       RowCid(q) = RowCid(r) => IF d = "3D" THEN ~got3d[q].ok ELSE ~got2d[q].ok

\* C1 as stated: once main has processed all rows, every row whose 3D fetch
\* succeeded has its file at the 3D path, holding exactly the fetched payload.
C1_Original ==
    AllProcessed =>
       \A r \in Rows : Fetched3D(r) => files["3D"][RowCid(r)] = File(got3d[r].text)

\* C1 amended: once main has processed all rows, every row whose 3D fetch
\* succeeded and whose save succeeded has a file at the 3D path; the file holds
\* exactly the fetched payload unless a later row of the same identifier
\* rewrote it.
C1_Saved3D ==
    AllProcessed =>
       \A r \in Rows :
          Fetched3D(r) /\ Saved(r) =>
             /\ files["3D"][RowCid(r)].ok
             /\ LastIn(r, "3D") => files["3D"][RowCid(r)] = File(got3d[r].text)

C1_Witness ==
    /\ AllProcessed
    /\ \E r \in Rows :
          /\ Fetched3D(r) /\ Saved(r) /\ LastIn(r, "3D")
          /\ got3d[r].text # <<>>
          /\ start.files["3D"][RowCid(r)] = File(OldText)
          /\ \E q \in Rows : q < r /\ RowCid(q) = RowCid(r) /\ Rewrote(q, "3D")

\* C2 as stated: once main has processed all rows, every row whose 3D fetch was
\* absent and whose 2D fetch succeeded has its file at the 2D path, holding the
\* 2D payload, and there is no file at the 3D path of its identifier.
C2_Original ==
    AllProcessed =>
       \A r \in Rows :
          FellBack(r) =>
             /\ files["2D"][RowCid(r)] = File(got2d[r].text)
             /\ ~files["3D"][RowCid(r)].ok

\* C2 amended: once main has processed all rows, every row whose 3D fetch was
\* absent, whose 2D fetch succeeded and whose save succeeded has a file at the
\* 2D path, holding the 2D payload unless a later row of the same identifier
\* rewrote it; the row itself leaves the 3D path alone: when no row of that
\* identifier got a 3D payload, the 3D path is as the run found it.
C2_Saved2D ==
    AllProcessed =>
       \A r \in Rows :
          FellBack(r) /\ Saved(r) =>
             /\ files["2D"][RowCid(r)].ok
             /\ LastIn(r, "2D") => files["2D"][RowCid(r)] = File(got2d[r].text)
             /\ save[r].dim = "2D"
             /\ NoPayload(r, "3D") =>
                   files["3D"][RowCid(r)] = start.files["3D"][RowCid(r)]

C2_Witness ==
    /\ AllProcessed
    /\ \E r \in Rows :
          /\ FellBack(r) /\ Saved(r) /\ LastIn(r, "2D") /\ NoPayload(r, "3D")
          /\ got2d[r].text # <<>>
          /\ files["3D"][RowCid(r)] = File(OldText)

\* C3 as stated: once main has processed all rows, for every row whose 3D and 2D
\* fetches were both absent there is no output file of its identifier in either
\* directory, error.log holds "<cid>: Failed to download 3D and 2D SDF" and
\* failed_cids.txt holds "<cid>".
C3_Original ==
    AllProcessed =>
       \A r \in Rows :
          BothAbsent(r) =>
             /\ ~files["3D"][RowCid(r)].ok
             /\ ~files["2D"][RowCid(r)].ok
             /\ <<RowCid(r), "Failed to download 3D and 2D SDF">> \in Range(error_log)
             /\ <<RowCid(r)>> \in Range(failed_cids)

\* C3 amended: once main has processed all rows, every row whose 3D and 2D
\* fetches were both absent saved nothing, error.log holds
\* "<cid>: Failed to download 3D and 2D SDF" and failed_cids.txt holds "<cid>";
\* in a directory for which no row of that identifier got a payload, the file of
\* the identifier is as the run found it.
C3_BothAbsent ==
    AllProcessed =>
       \A r \in Rows :
          BothAbsent(r) =>
             /\ save[r] = NoSave
             /\ logged[r] = 1
             /\ <<RowCid(r), "Failed to download 3D and 2D SDF">> \in Range(error_log)
             /\ <<RowCid(r)>> \in Range(failed_cids)
             /\ \A d \in Dims :
                   NoPayload(r, d) => files[d][RowCid(r)] = start.files[d][RowCid(r)]

C3_Witness ==
    /\ AllProcessed
    /\ \E r \in Rows :
          /\ BothAbsent(r)
          /\ files["3D"][RowCid(r)] = File(OldText)
          /\ ~files["2D"][RowCid(r)].ok
          /\ Len(error_log) = 2

\* What main makes of a response: absent, or its text.
Failing(r) == r.kind # "response" \/ r.status \in {404, 503}

C5_Claim ==
    \A r \in Rows :
       SaveFailed(r) =>
          /\ ~(pc = "crashed" /\ i = r)
          /\ r < i =>
                /\ <<RowCid(r), "Failed to save SDF">> \in Range(error_log)
                /\ <<RowCid(r)>> \in Range(failed_cids)

\* C6: with the input file missing, main returns at once: it never raises,
\* creates no directory, writes no file, issues no request and appends nothing
\* to either log.
C6_MissingInput ==
    ~csv.exists =>
       /\ pc \in {"read_csv", "done"}
       /\ error = ""
       /\ dirs = start.dirs
       /\ files = start.files
       /\ error_log = start.error_log
       /\ failed_cids = start.failed_cids
       /\ response = NoResponse

C6_Witness == ~csv.exists /\ pc = "done" /\ dirs = {}

Terminal(r) == Saved(r) \/ logged[r] = 1

\* C7: once the table is loaded, no error raised while a row is processed
\* leaves main, and every row is processed.
C7_Claim ==
    /\ pc = "crashed" => error \in {"read_csv", "makedirs"}
    /\ pc = "done" => \A r \in Rows : Terminal(r)

\* The order of the requests: per row at most one 3D and one 2D request, the 2D
\* one only after an absent 3D one, none for a row before the rows ahead of it
\* are Written or Failed.
C9_Order ==
    \A r \in Rows :
       /\ n3d[r] <= 1
       /\ n2d[r] <= 1
       /\ n2d[r] = 1 => n3d[r] = 1 /\ ~got3d[r].ok
       /\ n3d[r] = 1 => r <= i /\ \A q \in Rows : q < r => Terminal(q) /\ n3d[q] = 1
       /\ Terminal(r) => n3d[r] = 1

\* C9: the order of the requests, and the run ends with every row of the table
\* requested once and Written or Failed.
C9_Claim ==
    /\ C9_Order
    /\ pc \in {"done", "crashed"} /\ error \notin {"read_csv", "makedirs"}
       => \A r \in Rows : n3d[r] = 1 /\ Terminal(r)

\* The rows with a completed failure record, in table order.
IsLogged(r) == logged[r] = 1

LoggedRows == SelectSeq([r \in Rows |-> r], IsLogged)

\* Each row behind the current one has exactly one outcome.
OneOutcome ==
    \A r \in Rows :
       r < i =>
          \/ /\ Saved(r)
             /\ logged[r] = 0
             /\ save[r].dim = IF got3d[r].ok THEN "3D" ELSE "2D"
          \/ /\ ~Saved(r)
             /\ logged[r] = 1

\* log_error has written error.log and not (or not yet) failed_cids.txt.
HalfLogged == pc = "log_failed" \/ (pc = "crashed" /\ error = "failed_cids")

FailedCount == Cardinality({r \in Rows : logged[r] = 1})

Grown(before, after) ==
    /\ IsPrefix(before, after)
    /\ Len(after) = Len(before) + FailedCount

\* C8 as stated: a second run on the same input with the same responses leaves
\* the output files as the first run left them, and each log grown by one line
\* per failed row, what the first run wrote being a prefix.
C8_Original ==
    run = 2 /\ pc = "done" =>
       /\ files = first.files
       /\ Grown(first.error_log, error_log)
       /\ Grown(first.failed_cids, failed_cids)

\* C8 amended: a second run on the same input with the same responses, in which
\* every save goes as it went in the first run, leaves the output files as the
\* first run left them; with or without that, each log has grown by one line per
\* failed row, what the first run wrote being a prefix.
C8_Rerun ==
    run = 2 /\ pc = "done" =>
       /\ save = first.save => files = first.files
       /\ Grown(first.error_log, error_log)
       /\ Grown(first.failed_cids, failed_cids)

C8_Witness ==
    /\ run = 2
    /\ pc = "done"
    /\ save = first.save
    /\ \E r \in Rows : Saved(r) /\ save[r].left # <<>>
    /\ \E r \in Rows : save[r].kind = "write_fails"
    /\ Len(error_log) = 2

===========================================================================
